---- MODULE Spec2Model ----
(***************************************************************************)
(* Line alignment of a replace block (python/diff/align.py).               *)
(*                                                                         *)
(* One call align(lines_b, lines_a) is modelled as a state machine:        *)
(* construction of the AlignmentMatrix, the root initialisation loop, the  *)
(* row-major relaxation sweep, the choice of the exit node with the walk   *)
(* back along relax_parent, and the decoding of the path into pairs.       *)
(* Lines are sequences of characters; Python lists are functions over      *)
(* 0-based index ranges where the code indexes them by position.           *)
(***************************************************************************)
EXTENDS Integers, Sequences, FiniteSets, TLC

\* Bounds of the explored inputs: the number of lines of both sides
\* together, and the number of characters of all lines together.
MaxTotalLines == 4
MaxTotalChars == 3

\* Bound of the explored files: the number of characters of the left and
\* the right text together.
MaxTextChars == 4

Alphabet == {"x", "y"}

\* Python's None in an output pair (distinct from every line).
Absent == <<"None">>

\* math.inf: larger than every sum of weights the bounded inputs can produce.
Inf == 1000000

\* The lines of at most c characters.
Lines(c) == UNION {[1..k -> Alphabet] : k \in 0..c}

\* The lists of k lines with at most c characters in all.
RECURSIVE LineLists(_, _)
LineLists(k, c) ==
    IF k = 0 THEN {<<>>}
    ELSE UNION {{<<l>> \o rest : rest \in LineLists(k - 1, c - Len(l))} : l \in Lines(c)}

\* Every list of lines within the bounds, cut at every position into the
\* before lines and the after lines.
InputPairs ==
    UNION {{<<SubSeq(s, 1, m), SubSeq(s, m + 1, k)>> : s \in LineLists(k, MaxTotalChars), m \in 0..k}
           : k \in 0..MaxTotalLines}

\* The characters of a file: those of a line, and the line separator.
TextAlphabet == Alphabet \cup {"\n"}

\* Every text within the bound, cut at every position into the left text and
\* the right text.
TextPairs ==
    UNION {{<<SubSeq(s, 1, k), SubSeq(s, k + 1, n)>> : s \in [1..n -> TextAlphabet], k \in 0..n}
           : n \in 0..MaxTextChars}

Reverse(s) == [i \in 1..Len(s) |-> s[Len(s) + 1 - i]]

RECURSIVE SumSeq(_)
SumSeq(s) == IF s = <<>> THEN 0 ELSE Head(s) + SumSeq(Tail(s))

Min2(a, b) == IF a <= b THEN a ELSE b

----------------------------------------------------------------------------
(* Python list indexing: a[i] is valid for -len <= i < len, and a negative *)
(* index counts from the end.                                              *)

IndexOK(i, n) == -n <= i /\ i < n

PyIdx(i, n) == IF i < 0 THEN i + n ELSE i

Point(x, y) == [x |-> x, y |-> y]

----------------------------------------------------------------------------
(* difflib.ndiff over two strings: every character is one element.  The    *)
(* matcher takes the longest common block (earliest in the first string,   *)
(* then earliest in the second), and recurses to its left and right; a gap *)
(* with elements on both sides has no common element, so it is dumped as a *)
(* plain replace.  A token is represented by its tag character.            *)

MatchAt(a, b, i, j, k) == \A t \in 0..(k - 1) : a[i + t + 1] = b[j + t + 1]

Matches(a, alo, ahi, b, blo, bhi) ==
    {m \in (alo..(ahi - 1)) \X (blo..(bhi - 1)) \X (1..(ahi - alo)) :
        /\ m[1] + m[3] <= ahi
        /\ m[2] + m[3] <= bhi
        /\ MatchAt(a, b, m[1], m[2], m[3])}

find_longest_match(a, alo, ahi, b, blo, bhi) ==
    LET ms == Matches(a, alo, ahi, b, blo, bhi)
    IN  IF ms = {} THEN <<alo, blo, 0>>
        ELSE CHOOSE m \in ms : \A o \in ms :
                \/ m[3] > o[3]
                \/ m[3] = o[3] /\ m[1] < o[1]
                \/ m[3] = o[3] /\ m[1] = o[1] /\ m[2] <= o[2]

dump(tag, lo, hi) == [t \in 1..(hi - lo) |-> tag]

plain_replace(alo, ahi, blo, bhi) ==
    IF bhi - blo < ahi - alo
    THEN dump("+", blo, bhi) \o dump("-", alo, ahi)
    ELSE dump("-", alo, ahi) \o dump("+", blo, bhi)

RECURSIVE compare(_, _, _, _, _, _)
compare(a, alo, ahi, b, blo, bhi) ==
    LET m == find_longest_match(a, alo, ahi, b, blo, bhi)
        i == m[1]
        j == m[2]
        k == m[3]
    IN  IF k = 0
        THEN IF alo < ahi /\ blo < bhi THEN plain_replace(alo, ahi, blo, bhi)
             ELSE IF alo < ahi THEN dump("-", alo, ahi)
             ELSE IF blo < bhi THEN dump("+", blo, bhi)
             ELSE <<>>
        ELSE compare(a, alo, i, b, blo, j) \o dump(" ", 0, k)
                \o compare(a, i + k, ahi, b, j + k, bhi)

ndiff(line_b, line_a) == compare(line_b, 0, Len(line_b), line_a, 0, Len(line_a))

\* Number of tokens of a token sequence whose tag is not `tag'.
CountNot(tokens, tag) == Cardinality({i \in 1..Len(tokens) : tokens[i] # tag})

\* Number of tokens of a token sequence whose tag is in `tags'.
CountIn(tokens, tags) == Cardinality({i \in 1..Len(tokens) : tokens[i] \in tags})

----------------------------------------------------------------------------
(* AlignmentNode and AlignmentMatrix.__init__                              *)

AlignmentNode(x, y, weight) ==
    [id |-> Point(x, y), weight |-> weight,
     relax_weight |-> Inf, relax_parent |-> Point(0, 0)]

\* len(line): the weight of leaving a line unaligned.
UnalignWeight(line) == Len(line)

\* What is left of a generator once a loop has iterated it to its end.
Rewound(changeset) == changeset

Drained(changeset) == SubSeq(changeset, Len(changeset) + 1, Len(changeset))

\* The weight of aligning line_b with line_a.  changeset is a generator:
\* the first sum iterates it, the second sum iterates what is left of it.
AlignWeight(line_b, line_a) ==
    LET changeset == ndiff(line_b, line_a)
        edit_dist == CountNot(changeset, " ")
        operations == CountIn(Drained(changeset), {"+", "-"})
    IN  edit_dist * ((operations + 1) \div 2)

NodeWeight(lines_b, lines_a, x, y) ==
    LET aligned_x == x % 2 # 0
        aligned_y == y % 2 # 0
    IN  IF ~aligned_x /\ ~aligned_y THEN -1
        ELSE IF aligned_x /\ ~aligned_y THEN UnalignWeight(lines_b[(x \div 2) + 1])
        ELSE IF ~aligned_x /\ aligned_y THEN UnalignWeight(lines_a[(y \div 2) + 1])
        ELSE AlignWeight(lines_b[(x \div 2) + 1], lines_a[(y \div 2) + 1])

AlignmentMatrix(lines_b, lines_a) ==
    LET x_len == Len(lines_b) * 2 + 1
        y_len == Len(lines_a) * 2 + 1
    IN  [line_matrix_x_len |-> x_len,
         line_matrix_y_len |-> y_len,
         line_matrix |-> [x \in 0..(x_len - 1) |-> [y \in 0..(y_len - 1) |->
                            AlignmentNode(x, y, NodeWeight(lines_b, lines_a, x, y))]]]

\* The value of the name `matrix' before the constructor has run.
NoMatrix == [line_matrix_x_len |-> 0, line_matrix_y_len |-> 0, line_matrix |-> <<>>]

----------------------------------------------------------------------------
(* AlignmentNode.relax, root_adjacency, adjacency                          *)

Add(predecessor_weight, weight) ==
    IF predecessor_weight = Inf THEN Inf ELSE predecessor_weight + weight

relax(node, predecessor_id, predecessor_weight) ==
    LET candidate_weight == Add(predecessor_weight, node.weight)
    IN  IF node.relax_weight > candidate_weight
        THEN [node EXCEPT !.relax_weight = candidate_weight,
                          !.relax_parent = predecessor_id]
        ELSE node

root_adjacency_existing(self) ==
    SelectSeq(<<Point(0, 1), Point(1, 0), Point(1, 1)>>,
              LAMBDA p : p.x < self.line_matrix_x_len /\ p.y < self.line_matrix_y_len)

root_adjacency(self) == <<Point(0, 1), Point(1, 0), Point(1, 1)>>

adjacency_rounding_down(self, node) ==
    LET next_x == node.id.x + (node.id.x % 2)
        next_y == node.id.y - (node.id.y % 2)
        next_x_aligned == next_x + 1
        next_y_aligned == next_y + 1
    IN  (IF next_x_aligned < self.line_matrix_x_len
         THEN <<Point(next_x_aligned, next_y)>> ELSE <<>>)
        \o (IF next_y_aligned < self.line_matrix_y_len
            THEN <<Point(next_x, next_y_aligned)>> ELSE <<>>)
        \o (IF next_x_aligned < self.line_matrix_x_len
               /\ next_y_aligned < self.line_matrix_y_len
            THEN <<Point(next_x_aligned, next_y_aligned)>> ELSE <<>>)

adjacency(self, node) ==
    LET next_x == node.id.x + (node.id.x % 2)
        next_y == node.id.y + (node.id.y % 2)
        next_x_aligned == next_x + 1
        next_y_aligned == next_y + 1
    IN  (IF next_x_aligned < self.line_matrix_x_len
         THEN <<Point(next_x_aligned, next_y)>> ELSE <<>>)
        \o (IF next_y_aligned < self.line_matrix_y_len
            THEN <<Point(next_x, next_y_aligned)>> ELSE <<>>)
        \o (IF next_x_aligned < self.line_matrix_x_len
               /\ next_y_aligned < self.line_matrix_y_len
            THEN <<Point(next_x_aligned, next_y_aligned)>> ELSE <<>>)

\* self.line_matrix[p.x][p.y] raises IndexError unless both indices are valid.
NodeExists(self, p) ==
    /\ IndexOK(p.x, self.line_matrix_x_len)
    /\ IndexOK(p.y, self.line_matrix_y_len)

NodeAt(self, px, py) ==
    self.line_matrix[PyIdx(px, self.line_matrix_x_len)][PyIdx(py, self.line_matrix_y_len)]

----------------------------------------------------------------------------
(* AlignmentMatrix.shortest_path, piece by piece                           *)

\* The root loop: index each root adjacency node and zero its relaxed
\* distance.  Indexing a node that does not exist raises IndexError and
\* leaves the nodes already initialised as they are.
RECURSIVE root_init(_, _)
root_init(self, adjs) ==
    IF adjs = <<>> THEN [raised |-> FALSE, self |-> self]
    ELSE LET adj == Head(adjs)
         IN  IF ~NodeExists(self, adj) THEN [raised |-> TRUE, self |-> self]
             ELSE root_init([self EXCEPT !.line_matrix[adj.x][adj.y].relax_weight = 0],
                            Tail(adjs))

\* (x | y) % 2 == 0: the iteration is skipped when both coordinates are even.
SkipNodeUnlessBothOdd(x, y) == ~(x % 2 = 1 /\ y % 2 = 1)

SkipNever(x, y) == FALSE

SkipNode(x, y) == x % 2 = 0 /\ y % 2 = 0

\* The inner loop over the adjacency of one vertex.
RECURSIVE relax_all(_, _, _, _)
relax_all(self, vertex_id, vertex_weight, adjs) ==
    IF adjs = <<>> THEN self
    ELSE LET adj == Head(adjs)
             child == NodeAt(self, adj.x, adj.y)
         IN  relax_all([self EXCEPT !.line_matrix[adj.x][adj.y] =
                                        relax(child, vertex_id, vertex_weight)],
                       vertex_id, vertex_weight, Tail(adjs))

\* One iteration of the sweep at (x, y).
visit(self, x, y) ==
    IF SkipNode(x, y) THEN self
    ELSE LET vertex == NodeAt(self, x, y)
         IN  relax_all(self, vertex.id, vertex.relax_weight, adjacency(self, vertex))

\* The iterations of the sweep from the k-th on, in row-major order.
RECURSIVE sweep(_, _)
sweep(self, k) ==
    IF k >= self.line_matrix_x_len * self.line_matrix_y_len THEN self
    ELSE sweep(visit(self, k \div self.line_matrix_y_len, k % self.line_matrix_y_len), k + 1)

exit_xy(self) == NodeAt(self, self.line_matrix_x_len - 2, self.line_matrix_y_len - 2)

exit_x_transposed(self) == NodeAt(self, self.line_matrix_x_len - 1, self.line_matrix_y_len - 2)

exit_x(self) == NodeAt(self, self.line_matrix_x_len - 2, self.line_matrix_y_len - 1)

exit_y(self) == NodeAt(self, self.line_matrix_x_len - 1, self.line_matrix_y_len - 2)

\* Which branch of the final if/elif/else is taken.
ExitChoiceNonStrict(self) ==
    IF exit_x(self).relax_weight <= exit_y(self).relax_weight
       /\ exit_x(self).relax_weight <= exit_xy(self).relax_weight THEN "exit_x"
    ELSE IF exit_y(self).relax_weight <= exit_xy(self).relax_weight THEN "exit_y"
    ELSE "exit_xy"

ExitChoice(self) ==
    IF exit_x(self).relax_weight < exit_y(self).relax_weight
       /\ exit_x(self).relax_weight < exit_xy(self).relax_weight THEN "exit_x"
    ELSE IF exit_y(self).relax_weight < exit_xy(self).relax_weight THEN "exit_y"
    ELSE "exit_xy"

ExitNode(self, choice) ==
    IF choice = "exit_x" THEN exit_x(self)
    ELSE IF choice = "exit_y" THEN exit_y(self)
    ELSE exit_xy(self)

\* The loop condition of walk_path.
walk_continue_and(pos) == pos.id.x > 0 /\ pos.id.y > 0

walk_continue(pos) == pos.id.x > 0 \/ pos.id.y > 0

\* The nodes walk_path appends, exit first.
RECURSIVE walk_back(_, _)
walk_back(self, pos) ==
    IF walk_continue(pos)
    THEN LET next_pos == NodeAt(self, pos.id.x, pos.id.y).relax_parent
         IN  <<pos.id>> \o walk_back(self, NodeAt(self, next_pos.x, next_pos.y))
    ELSE <<>>

walk_path(self, exit) == Reverse(walk_back(self, exit))

----------------------------------------------------------------------------
(* align: decoding of the path                                             *)

PairOf(lines_b, lines_a, point) ==
    <<IF point.x % 2 # 0 THEN lines_b[(point.x \div 2) + 1] ELSE Absent,
      IF point.y % 2 # 0 THEN lines_a[(point.y \div 2) + 1] ELSE Absent>>

decode(lines_b, lines_a, path) ==
    [i \in 1..Len(path) |-> PairOf(lines_b, lines_a, path[i])]

\* The whole call as a function of its arguments.
align(lines_b, lines_a) ==
    LET r == root_init(AlignmentMatrix(lines_b, lines_a),
                       root_adjacency(AlignmentMatrix(lines_b, lines_a)))
    IN  IF r.raised THEN [status |-> "raised", alignment |-> <<>>]
        ELSE LET swept == sweep(r.self, 0)
                 path == walk_path(swept, ExitNode(swept, ExitChoice(swept)))
             IN  [status |-> "returned", alignment |-> decode(lines_b, lines_a, path)]

----------------------------------------------------------------------------
(* The callers of align (python/diff/mod.py): calculate_diff and the       *)
(* REPLACE branch of print_diffs and of print_diffs_side_by_side.  A text  *)
(* is a sequence of characters; the separator is one character or "".      *)

\* str.split(sep) for a one-character separator: one part more than there
\* are separators, empty parts included.
RECURSIVE split(_, _)
split(text, sep) ==
    IF \A i \in 1..Len(text) : text[i] # sep THEN <<text>>
    ELSE LET i == CHOOSE i \in 1..Len(text) :
                      text[i] = sep /\ \A k \in 1..(i - 1) : text[k] # sep
         IN  <<SubSeq(text, 1, i - 1)>> \o split(SubSeq(text, i + 1, Len(text)), sep)

\* sep.join(parts)
RECURSIVE join(_, _)
join(parts, sep) ==
    IF parts = <<>> THEN <<>>
    ELSE IF Len(parts) = 1 THEN parts[1]
    ELSE parts[1] \o (IF sep = "" THEN <<>> ELSE <<sep>>) \o join(Tail(parts), sep)

\* SequenceMatcher(None, a, b).get_opcodes() on the ranges a[alo:ahi] and
\* b[blo:bhi]: the longest matching block is `equal', the gaps to its left
\* and right are replace, delete or insert.
RECURSIVE get_opcodes(_, _, _, _, _, _)
get_opcodes(a, alo, ahi, b, blo, bhi) ==
    LET m == find_longest_match(a, alo, ahi, b, blo, bhi)
        i == m[1]
        j == m[2]
        k == m[3]
        Op(tag) == <<[tag |-> tag, i1 |-> alo, i2 |-> ahi, j1 |-> blo, j2 |-> bhi]>>
    IN  IF k = 0
        THEN IF alo < ahi /\ blo < bhi THEN Op("replace")
             ELSE IF alo < ahi THEN Op("delete")
             ELSE IF blo < bhi THEN Op("insert")
             ELSE <<>>
        ELSE get_opcodes(a, alo, i, b, blo, j)
                \o <<[tag |-> "equal", i1 |-> i, i2 |-> i + k, j1 |-> j, j2 |-> j + k]>>
                \o get_opcodes(a, i + k, ahi, b, j + k, bhi)

Diff(kind, left, right) == [kind |-> kind, left |-> left, right |-> right]

\* The Diff appended for one opcode.
DiffOf(left_parts, right_parts, sep, op) ==
    LET l == join(SubSeq(left_parts, op.i1 + 1, op.i2), sep)
        r == join(SubSeq(right_parts, op.j1 + 1, op.j2), sep)
    IN  IF op.tag = "equal" THEN Diff("SAME", l, Absent)
        ELSE IF op.tag = "insert" THEN Diff("ADD", r, Absent)
        ELSE IF op.tag = "delete" THEN Diff("REMOVE", l, Absent)
        ELSE Diff("REPLACE", l, r)

calculate_diff(left, right, sep) ==
    LET left_parts == IF sep # "" THEN split(left, sep)
                      ELSE [i \in 1..Len(left) |-> <<left[i]>>]
        right_parts == IF sep # "" THEN split(right, sep)
                       ELSE [i \in 1..Len(right) |-> <<right[i]>>]
        ops == get_opcodes(left_parts, 0, Len(left_parts), right_parts, 0, Len(right_parts))
    IN  [i \in 1..Len(ops) |-> DiffOf(left_parts, right_parts, sep, ops[i])]

calculate_line_diff(left, right) == calculate_diff(left, right, "\n")

\* str.splitlines(): as split, but a text that is empty or ends with the
\* separator yields no last empty line.
splitlines(text) ==
    LET parts == split(text, "\n")
    IN  IF parts[Len(parts)] = <<>> THEN SubSeq(parts, 1, Len(parts) - 1) ELSE parts

\* change.left.split("\n") and change.right.split("\n") of a REPLACE diff.
lines_of(text) == split(text, "\n")

----------------------------------------------------------------------------
(* The state machine of one call                                           *)

VARIABLES
    lines_b,     \* argument: the before lines
    lines_a,     \* argument: the after lines
    pc,          \* position of the call
    matrix,      \* the AlignmentMatrix object
    x, y,        \* loop variables of the sweep
    exit,        \* the exit node shortest_path walks back from
    path,        \* the path shortest_path returns
    alignment,   \* the list align returns
    visit_log,   \* history: the vertices used as relaxation sources, in order
    relax_log,   \* history: the calls of relax, as <<source, target>>, in order
    left,        \* main: the text of the left file
    right,       \* main: the text of the right file
    side_by_side, \* main: the --side-by-side flag
    diffs,       \* main: the list calculate_line_diff returned
    change_i     \* the number of diffs the print loop has processed

\* The state of the caller, which a direct call of align leaves alone.
caller_vars == <<left, right, side_by_side, diffs, change_i>>

vars == <<lines_b, lines_a, pc, matrix, x, y, exit, path, alignment, visit_log, relax_log,
          left, right, side_by_side, diffs, change_i>>

Init ==
    /\ \E in \in InputPairs : lines_b = in[1] /\ lines_a = in[2]
    /\ pc = "align"
    /\ matrix = NoMatrix
    /\ x = 0
    /\ y = 0
    /\ exit = Point(0, 0)
    /\ path = <<>>
    /\ alignment = <<>>
    /\ visit_log = <<>>
    /\ relax_log = <<>>
    /\ left = <<>>
    /\ right = <<>>
    /\ side_by_side = FALSE
    /\ diffs = <<>>
    /\ change_i = 0

\* matrix = AlignmentMatrix(lines_b, lines_a)
Construct ==
    /\ pc = "align"
    /\ matrix' = AlignmentMatrix(lines_b, lines_a)
    /\ pc' = "root_init"
    /\ UNCHANGED <<lines_b, lines_a, x, y, exit, path, alignment, visit_log, relax_log>>
    /\ UNCHANGED caller_vars

\* The root loop runs to its end.
RootInit ==
    /\ pc = "root_init"
    /\ LET r == root_init(matrix, root_adjacency(matrix))
       IN  /\ ~r.raised
           /\ matrix' = r.self
    /\ pc' = "sweep"
    /\ x' = 0
    /\ y' = 0
    /\ UNCHANGED <<lines_b, lines_a, exit, path, alignment, visit_log, relax_log>>
    /\ UNCHANGED caller_vars

\* The root loop indexes a node that does not exist: IndexError leaves align.
RootInitRaise ==
    /\ pc = "root_init"
    /\ LET r == root_init(matrix, root_adjacency(matrix))
       IN  /\ r.raised
           /\ matrix' = r.self
    /\ pc' = "raised"
    /\ UNCHANGED <<lines_b, lines_a, x, y, exit, path, alignment, visit_log, relax_log>>
    /\ UNCHANGED caller_vars

\* The loop variables after the iteration at (x, y); the sweep ends after
\* the last column of the last row.
Advance ==
    IF y + 1 < matrix.line_matrix_y_len
    THEN x' = x /\ y' = y + 1 /\ pc' = "sweep"
    ELSE IF x + 1 < matrix.line_matrix_x_len
    THEN x' = x + 1 /\ y' = 0 /\ pc' = "sweep"
    ELSE x' = x /\ y' = y /\ pc' = "select"

\* An iteration of the sweep that hits `continue'.
SweepSkip ==
    /\ pc = "sweep"
    /\ SkipNode(x, y)
    /\ Advance
    /\ UNCHANGED <<lines_b, lines_a, matrix, exit, path, alignment, visit_log, relax_log>>
    /\ UNCHANGED caller_vars

\* An iteration of the sweep that relaxes the adjacency of line_matrix[x][y].
SweepVisit ==
    /\ pc = "sweep"
    /\ ~SkipNode(x, y)
    /\ matrix' = visit(matrix, x, y)
    /\ visit_log' = Append(visit_log, Point(x, y))
    /\ LET adjs == adjacency(matrix, NodeAt(matrix, x, y))
       IN  relax_log' = relax_log \o [i \in 1..Len(adjs) |-> <<Point(x, y), adjs[i]>>]
    /\ Advance
    /\ UNCHANGED <<lines_b, lines_a, exit, path, alignment>>
    /\ UNCHANGED caller_vars

\* return self.walk_path(<the exit node of the branch taken>)
Return(choice) ==
    /\ exit' = ExitNode(matrix, choice).id
    /\ path' = walk_path(matrix, ExitNode(matrix, choice))
    /\ pc' = "decode"
    /\ UNCHANGED <<lines_b, lines_a, matrix, x, y, alignment, visit_log, relax_log>>
    /\ UNCHANGED caller_vars

SelectExitX ==
    /\ pc = "select"
    /\ ExitChoice(matrix) = "exit_x"
    /\ Return("exit_x")

SelectExitY ==
    /\ pc = "select"
    /\ ExitChoice(matrix) = "exit_y"
    /\ Return("exit_y")

SelectExitXY ==
    /\ pc = "select"
    /\ ExitChoice(matrix) = "exit_xy"
    /\ Return("exit_xy")

\* The loop of align over the path, and its return.
Decode ==
    /\ pc = "decode"
    /\ alignment' = decode(lines_b, lines_a, path)
    /\ pc' = "returned"
    /\ UNCHANGED <<lines_b, lines_a, matrix, x, y, exit, path, visit_log, relax_log>>
    /\ UNCHANGED caller_vars

Next ==
    \/ Construct
    \/ RootInit
    \/ RootInitRaise
    \/ SweepSkip
    \/ SweepVisit
    \/ SelectExitX
    \/ SelectExitY
    \/ SelectExitXY
    \/ Decode

Spec == Init /\ [][Next]_vars

TypeOK ==
    /\ pc \in {"align", "root_init", "sweep", "select", "decode", "returned", "raised"}
    /\ pc = "returned" => align(lines_b, lines_a) = [status |-> "returned", alignment |-> alignment]
    /\ pc = "raised" => align(lines_b, lines_a).status = "raised"

----------------------------------------------------------------------------
(* The state machine of main (python/jiff.py): the diff of two texts and   *)
(* the print loop over it.  What the loop prints is not part of the state; *)
(* a REPLACE diff calls align, taken as one step, and an error raised by   *)
(* align leaves the loop.                                                  *)

InitMain ==
    /\ \E in \in TextPairs : left = in[1] /\ right = in[2]
    /\ side_by_side \in BOOLEAN
    /\ pc = "main"
    /\ diffs = <<>>
    /\ change_i = 0
    /\ lines_b = <<>>
    /\ lines_a = <<>>
    /\ matrix = NoMatrix
    /\ x = 0
    /\ y = 0
    /\ exit = Point(0, 0)
    /\ path = <<>>
    /\ alignment = <<>>
    /\ visit_log = <<>>
    /\ relax_log = <<>>

\* diffs = diff.calculate_line_diff(lfile, rfile)
CalculateLineDiff ==
    /\ pc = "main"
    /\ diffs' = calculate_line_diff(left, right)
    /\ pc' = "print"
    /\ UNCHANGED <<left, right, side_by_side, change_i, lines_b, lines_a, alignment,
                   matrix, x, y, exit, path, visit_log, relax_log>>

\* One iteration of the print loop over diffs: only a REPLACE diff splits
\* its two sides into lines and aligns them.
PrintChange(change) ==
    /\ change_i' = change_i + 1
    /\ IF change.kind = "REPLACE"
       THEN /\ lines_b' = lines_of(change.left)
            /\ lines_a' = lines_of(change.right)
            /\ alignment' = align(lines_b', lines_a').alignment
            /\ pc' = IF align(lines_b', lines_a').status = "raised" THEN "raised" ELSE "print"
       ELSE UNCHANGED <<lines_b, lines_a, alignment, pc>>
    /\ UNCHANGED <<left, right, side_by_side, diffs,
                   matrix, x, y, exit, path, visit_log, relax_log>>

\* diff.print_diffs(diffs)
PrintDiffs ==
    /\ pc = "print"
    /\ ~side_by_side
    /\ change_i < Len(diffs)
    /\ PrintChange(diffs[change_i + 1])

\* diff.print_diffs_side_by_side(diffs, max_line_count)
PrintDiffsSideBySide ==
    /\ pc = "print"
    /\ side_by_side
    /\ change_i < Len(diffs)
    /\ PrintChange(diffs[change_i + 1])

\* The print loop is over and main returns.
Exit ==
    /\ pc = "print"
    /\ change_i = Len(diffs)
    /\ pc' = "exit"
    /\ UNCHANGED <<left, right, side_by_side, diffs, change_i, lines_b, lines_a, alignment,
                   matrix, x, y, exit, path, visit_log, relax_log>>

NextMain ==
    \/ CalculateLineDiff
    \/ PrintDiffs
    \/ PrintDiffsSideBySide
    \/ Exit

SpecMain == InitMain /\ [][NextMain]_vars

----------------------------------------------------------------------------
(* Vocabulary of the properties                                            *)

m_lines == Len(lines_b)

n_lines == Len(lines_a)

Range(s) == {s[i] : i \in 1..Len(s)}

\* shortest_path has returned its path.
Solved == pc \in {"decode", "returned"}

\* The sweep has run to its end.
Swept == pc \in {"select", "decode", "returned"}

Origin == Point(0, 0)

\* The three last moves into full consumption (m, n), as grid points.
DeleteLast == Point(2 * m_lines - 1, 2 * n_lines)

InsertLast == Point(2 * m_lines, 2 * n_lines - 1)

SubstituteLast == Point(2 * m_lines - 1, 2 * n_lines - 1)

Dist(p) == matrix.line_matrix[p.x][p.y].relax_weight

WeightOf(p) == matrix.line_matrix[p.x][p.y].weight

GridPoints == {Point(gx, gy) : gx \in 0..(2 * m_lines), gy \in 0..(2 * n_lines)}

MoveNodes == {p \in GridPoints : p.x % 2 = 1 \/ p.y % 2 = 1}

Placeholders == GridPoints \ MoveNodes

\* Sum of the intrinsic weights of the nodes of a path.
PathCost(p) == SumSeq([i \in 1..Len(p) |-> WeightOf(p[i])])

\* Cost of the fully unaligned baseline: every line a standalone gap.
Baseline ==
    SumSeq([i \in 1..m_lines |-> Len(lines_b[i])])
        + SumSeq([j \in 1..n_lines |-> Len(lines_a[j])])

\* Minimum, over all alignment paths from (0,0) to consumption state (i, j),
\* of the sum of the intrinsic weights of the move nodes on the path.
RECURSIVE MinCost(_, _)
MinCost(i, j) ==
    IF i = 0 /\ j = 0 THEN 0
    ELSE LET del == IF i > 0 THEN MinCost(i - 1, j) + WeightOf(Point(2 * i - 1, 2 * j))
                    ELSE Inf
             ins == IF j > 0 THEN MinCost(i, j - 1) + WeightOf(Point(2 * i, 2 * j - 1))
                    ELSE Inf
             sub == IF i > 0 /\ j > 0
                    THEN MinCost(i - 1, j - 1) + WeightOf(Point(2 * i - 1, 2 * j - 1))
                    ELSE Inf
         IN  Min2(del, Min2(ins, sub))

\* The before sides and the after sides present in a pair list, in order.
BeforeSide(al) == SelectSeq([i \in 1..Len(al) |-> al[i][1]], LAMBDA v : v # Absent)

AfterSide(al) == SelectSeq([i \in 1..Len(al) |-> al[i][2]], LAMBDA v : v # Absent)

\* The line indices a path consumes on each side, in order.
BeforeIndices(p) ==
    LET odd == SelectSeq(p, LAMBDA q : q.x % 2 = 1)
    IN  [i \in 1..Len(odd) |-> odd[i].x \div 2]

AfterIndices(p) ==
    LET odd == SelectSeq(p, LAMBDA q : q.y % 2 = 1)
    IN  [i \in 1..Len(odd) |-> odd[i].y \div 2]

\* The character-level diff counts of the cost model: D counts the tokens
\* that are not 'equal', K the tokens that are insertions or deletions.
DiffD(line_b, line_a) == CountNot(ndiff(line_b, line_a), " ")

DiffK(line_b, line_a) == CountIn(ndiff(line_b, line_a), {"+", "-"})

----------------------------------------------------------------------------
(* Properties                                                              *)

\* C1 (coverage): in the returned pair list, the pairs whose before side is
\* present are exactly before[0..m-1] in order, the pairs whose after side
\* is present are exactly after[0..n-1] in order, and no pair is absent on
\* both sides; the same holds of the line indices of the path.
C1_Coverage ==
    pc = "returned" =>
        /\ BeforeIndices(path) = [i \in 1..m_lines |-> i - 1]
        /\ AfterIndices(path) = [j \in 1..n_lines |-> j - 1]
        /\ Len(alignment) = Len(path)
        /\ BeforeSide(alignment) = lines_b
        /\ AfterSide(alignment) = lines_a
        /\ \A i \in 1..Len(alignment) : alignment[i] # <<Absent, Absent>>

\* A returned alignment with a line paired with absence and a paired line.
C1_Witness ==
    /\ pc = "returned"
    /\ m_lines + n_lines >= 3
    /\ \E i \in 1..Len(alignment) : alignment[i][1] = Absent \/ alignment[i][2] = Absent
    /\ \E i \in 1..Len(alignment) : alignment[i][1] # Absent /\ alignment[i][2] # Absent

\* C2 (global optimality): when shortest_path completes, the relaxed distance
\* of the chosen exit node is the minimum over all alignment paths of the
\* sum of the weights of every move node (first move included), and the
\* decoded path attains that minimum.
C2_GlobalOptimality ==
    Solved =>
        /\ Dist(exit) = MinCost(m_lines, n_lines)
        /\ PathCost(path) = MinCost(m_lines, n_lines)

\* C3 (one empty side): align([], after) with n >= 1 and align(before, [])
\* with m >= 1 raise no error and return the chain of inserts, respectively
\* the chain of deletes.
C3_OneEmptySideSucceeds ==
    /\ (m_lines = 0 /\ n_lines >= 1) =>
          /\ pc # "raised"
          /\ pc = "returned" => alignment = [j \in 1..n_lines |-> <<Absent, lines_a[j]>>]
    /\ (m_lines >= 1 /\ n_lines = 0) =>
          /\ pc # "raised"
          /\ pc = "returned" => alignment = [i \in 1..m_lines |-> <<lines_b[i], Absent>>]

\* C4 (precondition violation): align([], []) never returns a pairing; once
\* past the root loop the call has raised, with no path and no pair produced.
C4_EmptyEmptyRaises ==
    (m_lines = 0 /\ n_lines = 0) =>
        /\ pc \in {"align", "root_init", "raised"}
        /\ path = <<>>
        /\ alignment = <<>>

\* align([], []) has raised.
C4_Witness == m_lines = 0 /\ n_lines = 0 /\ pc = "raised"

\* C5 (baseline optimality): the sum of the weights of the nodes of the
\* chosen path is at most the sum of the lengths of all lines.
C5_BaselineOptimality == Solved => PathCost(path) <= Baseline

\* A chosen path with a gap that costs something and stays under the baseline.
C5_Witness ==
    /\ pc = "returned"
    /\ PathCost(path) > 0
    /\ PathCost(path) < Baseline
    /\ \E i \in 1..Len(path) : path[i].x % 2 = 1 /\ path[i].y % 2 = 1

\* C6 (terminal selection): the path is decoded from delete-last only if its
\* relaxed distance is strictly less than both others, else from insert-last
\* only if its distance is strictly less than substitute-last's, else from
\* substitute-last; the node chosen has the minimum distance of the three;
\* and one line against one line returns the single substituted pair.
C6_TerminalSelection ==
    Solved =>
        /\ exit = IF Dist(DeleteLast) < Dist(InsertLast)
                     /\ Dist(DeleteLast) < Dist(SubstituteLast) THEN DeleteLast
                  ELSE IF Dist(InsertLast) < Dist(SubstituteLast) THEN InsertLast
                  ELSE SubstituteLast
        /\ Dist(exit) <= Dist(DeleteLast)
        /\ Dist(exit) <= Dist(InsertLast)
        /\ Dist(exit) <= Dist(SubstituteLast)
        /\ (pc = "returned" /\ m_lines = 1 /\ n_lines = 1) =>
               alignment = <<<<lines_b[1], lines_a[1]>>>>
        /\ path # <<>> /\ path[Len(path)] = exit

\* Delete-last ties with substitute-last and substitute-last is decoded.
C6_Witness ==
    /\ pc = "returned"
    /\ Dist(DeleteLast) = Dist(SubstituteLast)
    /\ Dist(InsertLast) > Dist(SubstituteLast)
    /\ exit = SubstituteLast

\* C7 (symmetry of structure): with a substitution weight symmetric in its
\* two lines, swapping the sides of every pair of align(after, before) gives
\* the set of pairs of align(before, after).
C7_Symmetry ==
    (/\ pc = "returned"
     /\ \A b \in Range(lines_b), a \in Range(lines_a) : AlignWeight(b, a) = AlignWeight(a, b))
    => LET swapped == align(lines_a, lines_b)
       IN  /\ swapped.status = "returned"
           /\ {<<p[2], p[1]>> : p \in Range(swapped.alignment)} = Range(alignment)

\* A returned alignment of unequal sides that mixes gaps and pairings of
\* lines that differ.
C7_Witness ==
    /\ pc = "returned"
    /\ m_lines # n_lines
    /\ \E i \in 1..Len(alignment) :
          /\ alignment[i][1] # Absent
          /\ alignment[i][2] # Absent
          /\ alignment[i][1] # alignment[i][2]
    /\ \E i \in 1..Len(alignment) : alignment[i][2] = Absent

\* C8 (root initialisation): after the root loop, and until the solver
\* completes, each of the nodes (1,0), (0,1), (1,1) has relaxed distance
\* equal to its own weight and the origin as predecessor.
C8_RootInitialization ==
    pc \in {"sweep", "select", "decode", "returned"} =>
        \A p \in Range(root_adjacency(matrix)) :
            /\ Dist(p) = WeightOf(p)
            /\ matrix.line_matrix[p.x][p.y].relax_parent = Origin

\* C9 (substitution weight): the weight stored in the substitute node of
\* before[i] and after[j] is D * ceil(K / 2), and it is zero only when the
\* two lines are identical.
C9_SubstitutionWeight ==
    pc # "align" =>
        \A i \in 1..m_lines, j \in 1..n_lines :
            LET w == WeightOf(Point(2 * i - 1, 2 * j - 1))
            IN  /\ w = DiffD(lines_b[i], lines_a[j])
                         * ((DiffK(lines_b[i], lines_a[j]) + 1) \div 2)
                /\ w = 0 => lines_b[i] = lines_a[j]

\* C10 (reachability): with m >= 1 and n >= 1, once the sweep is over every
\* node with an odd coordinate has a finite relaxed distance; a node with
\* both coordinates even is never a relaxation source or target and keeps
\* its infinite distance and origin predecessor.
C10_Reachability ==
    /\ (Swept /\ m_lines >= 1 /\ n_lines >= 1) => \A p \in MoveNodes : Dist(p) < Inf
    /\ pc # "align" =>
          \A p \in Placeholders :
              /\ Dist(p) = Inf
              /\ matrix.line_matrix[p.x][p.y].relax_parent = Origin
              /\ p \notin Range(visit_log)
              /\ \A e \in Range(relax_log) : e[1] # p /\ e[2] # p

\* The sweep is over on a grid with several nodes of either kind.
C10_Witness ==
    /\ pc = "select"
    /\ m_lines >= 2
    /\ n_lines >= 2
    /\ Cardinality({e[2] : e \in Range(relax_log)}) = Cardinality(MoveNodes) - 3

\* The nodes with an edge into p: the move nodes whose adjacency holds p.
EdgesInto(p) ==
    {q \in MoveNodes : p \in Range(adjacency(matrix, matrix.line_matrix[q.x][q.y]))}

\* The nodes a step uses as relaxation sources.
NewSources == {visit_log'[i] : i \in (Len(visit_log) + 1)..Len(visit_log')}

\* Every node with an edge into a node this step uses as a source has been
\* used as a source by an earlier step.
SourcesAfterPredecessors ==
    \A p \in NewSources : EdgesInto(p) \subseteq Range(visit_log)

\* A step leaves the nodes used as sources, this step's included, as they are.
SourcesFrozen ==
    \A p \in Range(visit_log') :
        matrix'.line_matrix[p.x][p.y] = matrix.line_matrix[p.x][p.y]

\* C11 (topological sweep order): every move node is used as a relaxation
\* source only after every node with an edge into it has been used as one,
\* and once a node has been used as a source no step changes its relaxed
\* distance or its predecessor.
C11_TopologicalSweep == [][SourcesAfterPredecessors /\ SourcesFrozen]_vars

\* The sweep is over and a node used as a source had been relaxed from three
\* different sources.
C11_Witness ==
    /\ pc = "select"
    /\ \E p \in Range(visit_log) :
          Cardinality({e[1] : e \in {f \in Range(relax_log) : f[2] = p}}) = 3

\* 3*m*n + m + n: the number of move nodes of the grid.
RelaxBound == 3 * m_lines * n_lines + m_lines + n_lines

\* C12 (relaxation bound, as stated): one call of shortest_path calls relax
\* at most 3*m*n + m + n times.
C12_RelaxationBound == Len(relax_log) <= RelaxBound

\* C12 (relaxation bound, amended): the sweep uses at most 3*m*n + m + n
\* nodes as relaxation sources and calls relax at most three times from each
\* of them, hence at most 3 * (3*m*n + m + n) times in all.
C12_RelaxationBoundAmended ==
    /\ Len(visit_log) <= RelaxBound
    /\ \A p \in Range(visit_log) : Cardinality({e \in Range(relax_log) : e[1] = p}) <= 3
    /\ Len(relax_log) <= 3 * Len(visit_log)
    /\ Len(relax_log) <= 3 * RelaxBound

\* The sweep is over, every move node was a source, and relax was called
\* more than 3*m*n + m + n times.
C12_Witness ==
    /\ pc = "select"
    /\ Len(visit_log) = RelaxBound
    /\ Len(relax_log) > RelaxBound

\* The print loop has just processed a REPLACE diff: lines_b and lines_a are
\* the arguments of the call of align it made.
AlignCalled ==
    /\ pc \in {"print", "exit", "raised"}
    /\ change_i >= 1
    /\ diffs[change_i].kind = "REPLACE"

\* C13 (caller precondition): every call of align made for a REPLACE diff of
\* calculate_line_diff, by print_diffs and by print_diffs_side_by_side,
\* passes at least one line on each side, so the three root adjacency nodes
\* exist and the call does not raise.
C13_CallerPrecondition ==
    /\ pc # "raised"
    /\ AlignCalled =>
          /\ Len(lines_b) >= 1
          /\ Len(lines_a) >= 1
          /\ \A p \in Range(root_adjacency(AlignmentMatrix(lines_b, lines_a))) :
                NodeExists(AlignmentMatrix(lines_b, lines_a), p)

\* A REPLACE diff with an empty text on one side and two lines on the other
\* has been aligned.
C13_Witness ==
    /\ AlignCalled
    /\ diffs[change_i].left = <<>>
    /\ Len(lines_a) = 2
    /\ alignment # <<>>

====
